---------------------------- MODULE Spec2Model ----------------------------
(***************************************************************************)
(* Model of zulip/integrations/matrix/matrix_bridge.py: the Zulip <->      *)
(* Matrix mirroring bot.  The main context runs the retry loop, connects   *)
(* both clients and consumes Zulip's message stream (_zulip_to_matrix);    *)
(* each connection attempt starts a Matrix listener thread that runs       *)
(* _matrix_to_zulip for every room event.                                  *)
(*                                                                         *)
(* A Python string is modelled as the sequence of its pieces: every        *)
(* literal of the source and every atomic input (a name, a host, a body)   *)
(* is one piece, str.format is concatenation and str.replace removes the   *)
(* occurrences of a piece sequence from left to right.                     *)
(***************************************************************************)
EXTENDS Naturals, Sequences, FiniteSets

(* Bound: number of connection attempts (iterations of the retry loop). *)
MaxAttempts == 2

(* Cap of the retry counter of the backoff policy. *)
MaxRetries == 3

-----------------------------------------------------------------------------
(* Configuration (matrix_bridge_config.config) *)

Https == <<"https://">>
Http == <<"http://">>

Sites == { <<"https://", "z.org">>, <<"http://", "z.org">>, <<"z.org">> }
Hosts == { <<"https://", "matrix.org">>, <<"https://", "m.io">> }

zulip_config(site) ==
    [ email   |-> <<"bridge-bot@z.org">>,
      api_key |-> <<"key">>,
      site    |-> site,
      stream  |-> <<"mirror">>,
      subject |-> <<"general">> ]

matrix_config(host) ==
    [ host     |-> host,
      username |-> <<"zb">>,
      password |-> <<"pw">>,
      room_id  |-> <<"#room:matrix.org">> ]

Configs == { [zulip |-> zulip_config(s), matrix |-> matrix_config(h)] :
             s \in Sites, h \in Hosts }

-----------------------------------------------------------------------------
(* Strings *)

(* str.replace(old, ""): every non-overlapping occurrence, left to right. *)
RECURSIVE Replace(_, _)
Replace(s, old) ==
    IF Len(s) < Len(old) THEN s
    ELSE IF SubSeq(s, 1, Len(old)) = old
         THEN Replace(SubSeq(s, Len(old) + 1, Len(s)), old)
         ELSE <<Head(s)>> \o Replace(Tail(s), old)

(* "@**{0}**:{1}".format(full_name, site) *)
zulip_to_matrix_username(full_name, site) ==
    <<"@**">> \o full_name \o <<"**:">> \o site

(* config["site"].replace("https://", "").replace("http://", "") *)
site_without_http_https_only(config) ==
    Replace(config.site, Https)

site_without_http(config) ==
    Replace(Replace(config.site, Https), Http)

(* "{0}: {1}".format(matrix_username, msg["content"]) *)
matrix_text(config, msg) ==
    zulip_to_matrix_username(msg.sender_full_name, site_without_http(config))
        \o <<": ">> \o msg.content

(* The condition of the if in _zulip_to_matrix. *)
zulip_filter_any_subject(config, msg) ==
    /\ msg.type = "stream"
    /\ msg.sender_email # config.email
    /\ msg.display_recipient = config.stream

zulip_filter_any_sender(config, msg) ==
    /\ msg.type = "stream"
    /\ msg.display_recipient = config.stream
    /\ msg.subject = config.subject

zulip_filter(config, msg) ==
    LET isa_stream == msg.type = "stream"
        not_from_bot == msg.sender_email # config.email
        in_the_specified_stream == msg.display_recipient = config.stream
        at_the_specified_subject == msg.subject = config.subject
    IN  isa_stream /\ not_from_bot /\ in_the_specified_stream
            /\ at_the_specified_subject

(* The room.send_text calls one invocation of _zulip_to_matrix makes. *)
zulip_to_matrix_calls(config, msg) ==
    IF zulip_filter(config, msg) THEN << matrix_text(config, msg) >> ELSE << >>

(* get_message_content_from_event: the content returned, or raised = TRUE  *)
(* when `return content` reads the unassigned local (UnboundLocalError).   *)
get_message_content_from_event(event) ==
    IF event.type = "m.room.member"
    THEN IF event.membership = "join"
         THEN [raised |-> FALSE, content |-> event.sender \o <<" joined">>]
         ELSE IF event.membership = "leave"
         THEN [raised |-> FALSE, content |-> event.sender \o <<" quit">>]
         ELSE [raised |-> TRUE, content |-> << >>]
    ELSE IF event.type = "m.room.message"
    THEN IF event.content.msgtype = "m.text" \/ event.content.msgtype = "m.emote"
         THEN [raised |-> FALSE,
               content |-> event.sender \o <<": ">> \o event.content.body]
         ELSE [raised |-> TRUE, content |-> << >>]
    ELSE [raised |-> FALSE, content |-> <<event.type>>]

(* '@%s:matrix.org' % matrix_config['username'] *)
zulip_bot_user(mconfig) ==
    <<"@">> \o mconfig.username \o <<":", "matrix.org">>

not_from_zulip_bot(mconfig, event) ==
    "body" \notin DOMAIN event.content \/ event.sender # zulip_bot_user(mconfig)

(* The request _matrix_to_zulip passes to zulip_client.send_message. *)
zulip_request(client, zconfig, content) ==
    [ sender  |-> client.email,
      type    |-> "stream",
      to      |-> zconfig.stream,
      subject |-> zconfig.subject,
      content |-> content ]

-----------------------------------------------------------------------------
(* The platforms *)

(* zulip.Client(email=..., api_key=..., site=...): the handle of attempt k. *)
ZulipClient(zconfig, k) == [email |-> zconfig.email, id |-> k]

(* The user id the homeserver at matrix_config["host"] gives the account   *)
(* logged in by login_with_password: @username:server_name.                *)
BotIdentityB(mconfig) ==
    <<"@">> \o mconfig.username \o <<":">> \o Tail(mconfig.host)

Bob == <<"@", "bob", ":", "matrix.org">>

(* Authors of room events: a human, the bridge's own account, and the      *)
(* account with the bridge's username on matrix.org.                       *)
SendersB(mconfig) == { Bob, BotIdentityB(mconfig), zulip_bot_user(mconfig) }

MemberEvent(sender, membership) ==
    [ type |-> "m.room.member", membership |-> membership, sender |-> sender,
      content |-> [membership |-> membership] ]

MessageEvent(sender, msgtype, body) ==
    [ type |-> "m.room.message", sender |-> sender,
      content |-> [msgtype |-> msgtype, body |-> body] ]

TopicEvent(sender) ==
    [ type |-> "m.room.topic", sender |-> sender,
      content |-> [topic |-> <<"news">>] ]

StickerEvent(sender) ==
    [ type |-> "m.sticker", sender |-> sender,
      content |-> [body |-> <<"smile">>, url |-> <<"mxc://s">>] ]

(* The room events the users of platform B produce. *)
RoomEvents(mconfig) ==
    UNION { { MemberEvent(u, m) : m \in {"join", "leave", "invite"} }
            \cup { MessageEvent(u, t, <<"hi">>) : t \in {"m.text", "m.emote", "m.image"} }
            \cup { TopicEvent(u), StickerEvent(u) } : u \in SendersB(mconfig) }

(* The messages platform A's event queue hands to the callback. *)
ZulipMessages(zconfig) ==
    [ type              : {"stream", "private"},
      sender_email      : { <<"alice@z.org">>, zconfig.email },
      sender_full_name  : { <<"alice">> },
      display_recipient : { zconfig.stream, <<"other">> },
      subject           : { zconfig.subject, <<"misc">> },
      content           : { <<"hello">> } ]

(* A message Relay-B->A sent, as platform A delivers it to every          *)
(* subscriber of the stream, the bridge's own queue included.              *)
ZulipDelivery(request) ==
    [ type              |-> request.type,
      sender_email      |-> request.sender,
      sender_full_name  |-> <<"Bridge Bot">>,
      display_recipient |-> request.to,
      subject           |-> request.subject,
      content           |-> request.content ]

(* A text Relay-A->B sent into the room, as the room's sync returns it.    *)
MatrixDelivery(mconfig, text) ==
    MessageEvent(BotIdentityB(mconfig), "m.text", text)

NoEvent == [type |-> "none"]
NoMessage == [type |-> "none"]

-----------------------------------------------------------------------------
(* State *)

VARIABLES
    cfg,        \* the configuration, loaded once (lines 92-93)
    pc,         \* position of the main context in the retry loop
    attempt,    \* number of the current connection attempt
    backoff,    \* the RandomExponentialBackoff object
    elapsed,    \* time the current CONNECTED period has lasted
    fails,      \* number of backoff.fail() calls made
    signalled,  \* SIGINT has been delivered
    listener,   \* per attempt: state of the Matrix listener it created
    \* Of the inbound events only the latest is recorded: an event of one
    \* platform replaces the record of the other platform's latest event.
    roomEv,     \* the latest event of the room
    roomEcho,   \* whether roomEv is the delivery of a Relay-A->B send
    todo,       \* listeners that have not yet been handed roomEv
    handled,    \* listeners whose callback has run on roomEv
    sendsA,     \* zulip_client.send_message calls made for roomEv
    inA,        \* the latest message handed to _zulip_to_matrix in this attempt
    inEcho,     \* whether inA is the delivery of a Relay-B->A send
    sendsB      \* room.send_text calls made for inA

vars == << cfg, pc, attempt, backoff, elapsed, fails, signalled, listener,
           roomEv, roomEcho, todo, handled, sendsA, inA, inEcho, sendsB >>

Attempts == 1 .. MaxAttempts

Init ==
    /\ cfg \in Configs
    /\ pc = "loop"
    /\ attempt = 0
    /\ backoff = [number_of_retries |-> 0]
    /\ elapsed = 0
    /\ fails = 0
    /\ signalled = FALSE
    /\ listener = [k \in Attempts |-> "none"]
    /\ roomEv = NoEvent
    /\ roomEcho = FALSE
    /\ todo = {}
    /\ handled = {}
    /\ sendsA = {}
    /\ inA = NoMessage
    /\ inEcho = FALSE
    /\ sendsB = << >>

Running == pc # "exited"

(* What only backoff.fail() and SIGINT change. *)
steady == << cfg, signalled, fails >>

roomVars == << roomEv, roomEcho, todo, handled, sendsA >>
zulipVars == << inA, inEcho, sendsB >>

-----------------------------------------------------------------------------
(* Relay-B->A and the backoff policy *)

(* One invocation of _matrix_to_zulip: whether get_message_content_from_   *)
(* event raised (line 29, before the filter) and the send_message calls.   *)
matrix_to_zulip_calls(client, zconfig, mconfig, event) ==
    LET r == get_message_content_from_event(event)
    IN  IF r.raised THEN [raised |-> TRUE, calls |-> << >>]
        ELSE IF not_from_zulip_bot(mconfig, event)
        THEN [raised |-> FALSE,
              calls |-> << zulip_request(client, zconfig, r.content) >>]
        ELSE [raised |-> FALSE, calls |-> << >>]

(* The client handles of attempt k, as the two contexts reach them.        *)
(* Line 115: the main context blocks in zulip_client.call_on_each_message. *)
consumer_handle(k) == <<"zulip_client", k>>

(* Lines 109 and 39: the closure given to the listener holds the same      *)
(* zulip_client and sends through it.                                      *)
relay_handle_own_client(k) == <<"zulip_client", k + MaxAttempts>>
relay_handle(k) == <<"zulip_client", k>>

(* Lines 108 and 84: room belongs to matrix_client; send_text goes through *)
(* the client that joined it.                                              *)
send_text_handle(k) == <<"matrix_client", k>>

(* Line 112: the listener thread is matrix_client's own. *)
listener_handle(k) == <<"matrix_client", k>>

(* backoff.keep_going(): the loop runs until the process is terminated. *)
keep_going(b) == TRUE

(* zulip.RandomExponentialBackoff(timeout_success_equivalent=300) *)
timeout_success_equivalent_30 == 300 \div 10
timeout_success_equivalent == 300

(* The durations of a CONNECTED period the model tells apart. *)
Times == {0, 299, 300}

(* backoff.fail(): a CONNECTED period sustained at least                   *)
(* timeout_success_equivalent counts as a success (the growth factor is    *)
(* reset) before the failure is counted.                                   *)
backoff_fail(b, lasted) ==
    LET n == IF lasted >= timeout_success_equivalent
             THEN 0 ELSE b.number_of_retries
    IN  [number_of_retries |-> IF n < MaxRetries THEN n + 1 ELSE MaxRetries]

-----------------------------------------------------------------------------
(* The main context: lines 97-118 *)

(* while backoff.keep_going(): print("Starting matrix mirroring bot") *)
LoopTop ==
    /\ pc = "loop"
    /\ attempt < MaxAttempts
    /\ keep_going(backoff)
    /\ pc' = "construct"
    /\ attempt' = attempt + 1
    /\ elapsed' = 0
    /\ inA' = NoMessage
    /\ inEcho' = FALSE
    /\ sendsB' = << >>
    /\ UNCHANGED << steady, backoff, listener, roomVars >>

(* One statement of the try block that either completes or raises. *)
Step(from, to) ==
    /\ pc = from
    /\ \E ok \in BOOLEAN : pc' = IF ok THEN to ELSE "fail"
    /\ UNCHANGED << steady, attempt, backoff, elapsed, listener, roomVars,
                    zulipVars >>

(* zulip.Client(...); MatrixClient(matrix_config["host"]) *)
Construct == Step("construct", "login")

(* matrix_client.login_with_password(username, password) *)
Login == Step("login", "join")

(* room = matrix_client.join_room(matrix_config["room_id"]) *)
Join_unregistered == Step("join", "start_listener")
Join == Step("join", "add_listener")

(* room.add_listener(matrix_to_zulip(zulip_client, zulip_config, matrix_config)) *)
AddListener ==
    /\ pc = "add_listener"
    /\ pc' = "start_listener"
    /\ listener' = [listener EXCEPT ![attempt] = "registered"]
    /\ UNCHANGED << steady, attempt, backoff, elapsed, roomVars, zulipVars >>

(* matrix_client.start_listener_thread() *)
StartListener ==
    /\ pc = "start_listener"
    /\ pc' = "call"
    /\ listener' = [listener EXCEPT ![attempt] = "alive"]
    /\ UNCHANGED << steady, attempt, backoff, elapsed, roomVars, zulipVars >>

(* zulip_client.call_on_each_message(zulip_to_matrix(zulip_config, room)):  *)
(* the main context blocks in the call.                                    *)
CallOnEachMessage ==
    /\ pc = "call"
    /\ pc' = "consume"
    /\ UNCHANGED << steady, attempt, backoff, elapsed, listener, roomVars,
                    zulipVars >>

(* call_on_each_message hands msg to _zulip_to_matrix; room.send_text      *)
(* either returns or raises, and a raise leaves the call and the try.      *)
(* The two callbacks read and write nothing in common, so the consumption  *)
(* of a message is ordered after the pending deliveries of the room's      *)
(* latest event (Consuming).                                               *)
Relay(msg, echo) ==
    LET calls == zulip_to_matrix_calls(cfg.zulip, msg)
    IN  /\ inA' = msg
        /\ inEcho' = echo
        /\ IF calls = << >>
           THEN /\ sendsB' = << >>
                /\ UNCHANGED pc
           ELSE \E ok \in BOOLEAN :
                /\ sendsB' = [ i \in 1 .. Len(calls) |->
                                 [handle |-> send_text_handle(attempt),
                                  text |-> calls[i], ok |-> ok] ]
                /\ pc' = IF ok THEN "consume" ELSE "fail"
        /\ roomEv' = NoEvent
        /\ roomEcho' = FALSE
        /\ handled' = {}
        /\ sendsA' = {}
        /\ UNCHANGED << steady, attempt, backoff, elapsed, listener, todo >>

Consuming == pc = "consume" /\ todo = {}

(* A user's message arrives on the bridge's event queue. *)
ZulipMessage ==
    /\ Consuming
    /\ \E msg \in ZulipMessages(cfg.zulip) : Relay(msg, FALSE)

(* A message Relay-B->A sent arrives on the bridge's event queue. *)
ZulipEcho ==
    /\ Consuming
    /\ \E s \in sendsA :
        /\ s.result = "success"
        /\ Relay(ZulipDelivery(s.request), TRUE)

(* call_on_each_message raises or returns. *)
StreamEnds_returns ==
    /\ pc = "consume"
    /\ pc' = "loop"
    /\ UNCHANGED << steady, attempt, backoff, elapsed, listener, roomVars,
                    zulipVars >>

StreamEnds ==
    /\ pc = "consume"
    /\ pc' = "fail"
    /\ UNCHANGED << steady, attempt, backoff, elapsed, listener, roomVars,
                    zulipVars >>

(* Time passes while the main context is blocked in the call. *)
TimePasses ==
    /\ pc = "consume"
    /\ \E t \in Times : t > elapsed /\ elapsed' = t
    /\ UNCHANGED << steady, pc, attempt, backoff, listener, roomVars,
                    zulipVars >>

(* except Exception: traceback.print_exc(); then backoff.fail() *)
Fail_leaves_loop ==
    /\ pc = "fail"
    /\ pc' = "stopped"
    /\ UNCHANGED << cfg, signalled, fails, backoff, attempt, elapsed, listener,
                    roomVars, zulipVars >>

Fail ==
    /\ pc = "fail"
    /\ backoff' = backoff_fail(backoff, elapsed)
    /\ fails' = fails + 1
    /\ pc' = "loop"
    /\ UNCHANGED << cfg, signalled, attempt, elapsed, listener, roomVars,
                    zulipVars >>

(* SIGINT: die() calls os._exit(1); every thread of the process ends. *)
Interrupt_caught ==
    /\ Running
    /\ signalled' = TRUE
    /\ pc' = "fail"
    /\ UNCHANGED << cfg, fails, attempt, backoff, elapsed, listener, roomVars,
                    zulipVars >>

Interrupt ==
    /\ Running
    /\ pc' = "exited"
    /\ signalled' = TRUE
    /\ listener' = [k \in Attempts |->
                      IF listener[k] = "alive" THEN "dead" ELSE listener[k]]
    /\ todo' = {}
    /\ UNCHANGED << cfg, fails, attempt, backoff, elapsed, roomEv, roomEcho,
                    handled, sendsA, zulipVars >>

-----------------------------------------------------------------------------
(* The Matrix listener threads *)

Alive == { k \in Attempts : listener[k] = "alive" }

(* A room event reaches every listener thread that is syncing. *)
Post(event, echo) ==
    /\ Running
    /\ todo = {}
    /\ Alive # {}
    /\ roomEv' = event
    /\ roomEcho' = echo
    /\ todo' = Alive
    /\ handled' = {}
    /\ sendsA' = {}
    /\ inA' = NoMessage
    /\ inEcho' = FALSE
    /\ sendsB' = << >>
    /\ UNCHANGED << steady, pc, attempt, backoff, elapsed, listener >>

(* A user of platform B produces a room event. *)
RoomEvent == \E event \in RoomEvents(cfg.matrix) : Post(event, FALSE)

(* The room returns a text the bridge sent into it. *)
RoomEcho ==
    \E i \in 1 .. Len(sendsB) :
        /\ sendsB[i].ok
        /\ Post(MatrixDelivery(cfg.matrix, sendsB[i].text), TRUE)

(* The listener thread of attempt k runs _matrix_to_zulip on roomEv.  The  *)
(* closure holds the zulip_client of its own attempt.  An exception leaves *)
(* the callback into the listener thread (no exception handler is given to *)
(* start_listener_thread), which ends; the main context is not involved.   *)
Deliver(k) ==
    LET client == ZulipClient(cfg.zulip, k)
        r == matrix_to_zulip_calls(client, cfg.zulip, cfg.matrix, roomEv)
    IN  /\ Running
        /\ k \in todo
        /\ todo' = todo \ {k}
        /\ handled' = handled \cup {k}
        /\ \E result \in {"success", "error"} :
            /\ sendsA' = sendsA \cup
                 { [listener |-> k, handle |-> relay_handle(k),
                    request |-> r.calls[i], result |-> result] :
                   i \in 1 .. Len(r.calls) }
            /\ IF r.raised \/ (r.calls # << >> /\ result = "error")
               THEN listener' = [listener EXCEPT ![k] = "dead"]
               ELSE UNCHANGED listener
        /\ UNCHANGED << steady, pc, attempt, backoff, elapsed, roomEv, roomEcho,
                        zulipVars >>

-----------------------------------------------------------------------------

Next ==
    \/ LoopTop
    \/ Construct
    \/ Login
    \/ Join
    \/ AddListener
    \/ StartListener
    \/ CallOnEachMessage
    \/ ZulipMessage
    \/ ZulipEcho
    \/ StreamEnds
    \/ TimePasses
    \/ Fail
    \/ Interrupt
    \/ RoomEvent
    \/ RoomEcho
    \/ \E k \in Attempts : Deliver(k)

Spec == Init /\ [][Next]_vars

(* The steps the program takes by itself: the statements of the main       *)
(* context that do not wait for a platform, and a listener thread's        *)
(* callback once the event is there.  Inbound events, failures of the      *)
(* stream and SIGINT are the environment's and may never come.             *)
MainStep ==
    \/ LoopTop
    \/ Construct
    \/ Login
    \/ Join
    \/ AddListener
    \/ StartListener
    \/ CallOnEachMessage
    \/ Fail

FairSpec ==
    /\ Spec
    /\ WF_vars(MainStep)
    /\ \A k \in Attempts : WF_vars(Deliver(k))

-----------------------------------------------------------------------------
(* Vocabulary of the properties *)

(* The bridge's own identity on platform B. *)
OwnB == BotIdentityB(cfg.matrix)

Posted == roomEv.type # "none"
Consumed == inA.type # "none"

IsTextOrEmote(event) ==
    /\ event.type = "m.room.message"
    /\ event.content.msgtype \in {"m.text", "m.emote"}

(* The send_message calls the callback of listener k made for roomEv. *)
SendsOf(k) == { s \in sendsA : s.listener = k }

(* A stream message to the configured stream and subject, sent as the      *)
(* bridge's A-bot, with the given content.                                 *)
StreamMessage(content) ==
    [ sender  |-> cfg.zulip.email,
      type    |-> "stream",
      to      |-> cfg.zulip.stream,
      subject |-> cfg.zulip.subject,
      content |-> content ]

(* Listener k issued exactly one send for roomEv, with this content. *)
SentOnce(k, content) ==
    /\ Cardinality(SendsOf(k)) = 1
    /\ \A s \in SendsOf(k) : s.request = StreamMessage(content)

(* The conditions under which a platform-A message is to be relayed. *)
Matches(msg) ==
    /\ msg.type = "stream"
    /\ msg.sender_email # cfg.zulip.email
    /\ msg.display_recipient = cfg.zulip.stream
    /\ msg.subject = cfg.zulip.subject

(* A site URL with its scheme removed. *)
SchemeRemoved(site) ==
    IF Head(site) \in {"https://", "http://"} THEN Tail(site) ELSE site

-----------------------------------------------------------------------------
(* C1: for every room event authored by the bridge's own B identity, of    *)
(* any type, Relay-B->A issues no send to platform A.                      *)
C1_OwnEventsNotRelayed ==
    (Posted /\ roomEv.sender = OwnB) => sendsA = {}

(* C2: an uncaught error in the listener context (a failed send, an        *)
(* unhandled event shape) moves the Supervisor out of CONNECTED: the       *)
(* bridge does not stay CONNECTED with its B->A listener dead.             *)
C2_ListenerErrorReachesSupervisor ==
    (pc = "consume" /\ listener[attempt] = "dead")
        ~> (pc \in {"fail", "exited"})

(* C3: listeners of earlier CONNECTED periods no longer deliver, so a room *)
(* event leads to at most one send to platform A.                          *)
C3_OneSendPerRoomEvent ==
    Cardinality(sendsA) <= 1

(* C4: a platform-A message that is a stream message, not from the bot, in *)
(* the configured stream and subject leads to exactly one room.send_text,  *)
(* with text "@**{sender_full_name}**:{site without scheme}: {content}".   *)
C4_MatchingMessageRelayedOnce ==
    (Consumed /\ Matches(inA)) =>
        /\ Len(sendsB) = 1
        /\ sendsB[1].text =
             <<"@**">> \o inA.sender_full_name \o <<"**:">>
                 \o SchemeRemoved(cfg.zulip.site) \o <<": ">> \o inA.content

C4_Witness ==
    /\ Consumed /\ Matches(inA)
    /\ Head(cfg.zulip.site) = "http://"
    /\ Len(sendsB) = 1 /\ sendsB[1].ok

(* C5: a platform-A message from the bot, or of another stream, or of      *)
(* another subject, or not a stream message, leads to no send to B.        *)
C5_OtherMessagesNotRelayed ==
    (Consumed /\ ~Matches(inA)) => sendsB = << >>

C5_Witness ==
    /\ Consumed /\ ~inEcho
    /\ inA.type = "stream"
    /\ inA.sender_email # cfg.zulip.email
    /\ inA.display_recipient = cfg.zulip.stream
    /\ inA.subject # cfg.zulip.subject
    /\ sendsB = << >>

(* C6: for a room message of msgtype m.text or m.emote not authored by the *)
(* bridge's own B identity, Relay-B->A issues exactly one send: a stream   *)
(* message to the configured stream and subject, as the A-bot, with        *)
(* content "{sender}: {body}".                                             *)
C6_TextRelayedOnce ==
    \A k \in handled :
        (IsTextOrEmote(roomEv) /\ roomEv.sender # OwnB) =>
            SentOnce(k, roomEv.sender \o <<": ">> \o roomEv.content.body)

(* C7: a text Relay-A->B sent into the room, delivered back as a room      *)
(* message of the bot's identity, leads to no send to platform A.          *)
C7_EchoFromBNotRelayed ==
    roomEcho => sendsA = {}

(* C8: every message Relay-B->A sends to A is sent as the A-bot, and when  *)
(* platform A delivers it back, Relay-A->B issues no send to B.            *)
C8_EchoFromANotRelayed ==
    /\ \A s \in sendsA : s.request.sender = cfg.zulip.email
    /\ inEcho => sendsB = << >>

C8_Witness ==
    /\ inEcho
    /\ inA.content = Bob \o <<" joined">>
    /\ inA.display_recipient = cfg.zulip.stream
    /\ inA.subject = cfg.zulip.subject
    /\ sendsB = << >>

(* C9: from a sender other than the bot, a member event with membership    *)
(* join is forwarded as "{sender} joined", with membership leave as        *)
(* "{sender} quit", and an event of a type other than m.room.member and    *)
(* m.room.message as its type tag.                                         *)
C9_RenderedAndForwarded ==
    \A k \in handled :
        roomEv.sender # OwnB =>
            /\ (roomEv.type = "m.room.member" /\ roomEv.membership = "join")
                   => SentOnce(k, roomEv.sender \o <<" joined">>)
            /\ (roomEv.type = "m.room.member" /\ roomEv.membership = "leave")
                   => SentOnce(k, roomEv.sender \o <<" quit">>)
            /\ roomEv.type \notin {"m.room.member", "m.room.message"}
                   => SentOnce(k, <<roomEv.type>>)


(* The handles the main context and the listener of the current attempt    *)
(* have touched while the main context consumes platform A's stream.       *)
MainTouches ==
    {consumer_handle(attempt)} \cup { sendsB[i].handle : i \in 1 .. Len(sendsB) }

ListenerTouches ==
    (IF listener[attempt] = "alive" THEN {listener_handle(attempt)} ELSE {})
        \cup { s.handle : s \in SendsOf(attempt) }

(* C10 as stated: during a CONNECTED period no client handle is used by    *)
(* both the main context and the listener context.                         *)
C10_DisjointHandles ==
    pc = "consume" => MainTouches \cap ListenerTouches = {}

(* C10 as amended: both handles are common to the two contexts.  Every     *)
(* send of Relay-B->A in the listener context goes through the A-client    *)
(* whose stream the main context consumes, and every send of Relay-A->B in *)
(* the main context goes through the B-client whose listener thread runs.  *)
C10_HandlesShared ==
    pc = "consume" =>
        /\ \A s \in SendsOf(attempt) : s.handle \in MainTouches
        /\ listener[attempt] = "alive" =>
               \A i \in 1 .. Len(sendsB) : sendsB[i].handle \in ListenerTouches

C10_Witness ==
    /\ pc = "consume"
    /\ listener[attempt] = "alive"
    /\ \E s \in SendsOf(attempt) : s.result = "success"

-----------------------------------------------------------------------------
C12_InterruptTerminates ==
    [][ /\ signalled' => pc' = "exited"
        /\ pc = "exited" =>
              /\ pc' = "exited"
              /\ UNCHANGED << backoff, fails, attempt, listener, handled,
                              sendsA, sendsB >> ]_vars

C12_Witness ==
    /\ signalled
    /\ pc = "exited"
    /\ Posted
    /\ handled = {}

(* C13: a failure that follows a CONNECTED period shorter than the         *)
(* threshold of 300 does not reset the growth factor (the retry count      *)
(* grows, up to its cap); after a CONNECTED period of at least 300 the     *)
(* count is reset before the failure is counted.                           *)
C13_BackoffMonotone ==
    [][ (pc = "fail" /\ pc' = "loop") =>
           IF elapsed < 300
           THEN \/ backoff'.number_of_retries = backoff.number_of_retries + 1
                \/ backoff'.number_of_retries = MaxRetries
           ELSE backoff'.number_of_retries = 1 ]_vars

C13_Witness ==
    /\ pc = "loop"
    /\ fails = 2
    /\ elapsed >= 300
    /\ backoff.number_of_retries = 1

(* C14: get_message_content_from_event yields a defined content for every *)
(* event except a member event whose membership is neither join nor leave; *)
(* in particular every m.room.message is rendered without error.           *)
C14_ContentDefined ==
    \A k \in handled :
        get_message_content_from_event(roomEv).raised
            <=> /\ roomEv.type = "m.room.member"
                /\ roomEv.membership \notin {"join", "leave"}

(* C15: an inbound event leads to at most one send attempt on the opposite *)
(* platform, reconnects included; a failed send raises out of the callback *)
(* (the listener thread ends, the main context leaves the call) and the    *)
(* message is not sent again.                                              *)
C15_NoPerMessageRetry ==
    /\ \A s, t \in sendsA : s.request = t.request => s = t
    /\ Len(sendsB) <= 1
    /\ \A s \in sendsA : s.result = "error" => listener[s.listener] = "dead"
    /\ \A i \in 1 .. Len(sendsB) :
           ~sendsB[i].ok => pc \in {"fail", "loop", "exited"}

(* The order of the statements of one attempt, the handler and the exit. *)
Order ==
    { <<"loop", "construct">>, <<"construct", "login">>, <<"login", "join">>,
      <<"join", "add_listener">>, <<"add_listener", "start_listener">>,
      <<"start_listener", "call">>, <<"call", "consume">>,
      <<"fail", "loop">> }
    \cup { <<p, "fail">> : p \in { "construct", "login", "join", "add_listener",
                                   "start_listener", "call", "consume" } }
    \cup { <<p, "exited">> : p \in { "loop", "construct", "login", "join",
                                     "add_listener", "start_listener", "call",
                                     "consume", "fail" } }

(* C16: the steps of an attempt occur in the order construct, login, join, *)
(* register Relay-B->A, start the listener thread, consume A's stream; a   *)
(* failure at any step goes to the one handler and no later step of the    *)
(* attempt occurs; Relay-A->B sends only through the room joined in the    *)
(* current attempt; B's listener thread is started only with Relay-B->A    *)
(* registered.                                                             *)
C16_StepOrder ==
    [][ /\ pc' # pc => <<pc, pc'>> \in Order
        /\ \A k \in Attempts :
             /\ (listener'[k] = "registered" /\ listener[k] # "registered")
                    => (k = attempt /\ pc = "add_listener"
                            /\ listener[k] = "none")
             /\ (listener'[k] = "alive" /\ listener[k] # "alive")
                    => (k = attempt /\ pc = "start_listener"
                            /\ listener[k] = "registered")
        /\ (sendsB' # sendsB /\ sendsB' # << >>)
               => /\ pc = "consume"
                  /\ listener[attempt] \in {"alive", "dead"}
                  /\ \A i \in 1 .. Len(sendsB') :
                         sendsB'[i].handle = listener_handle(attempt) ]_vars

C16_Witness ==
    /\ pc = "consume"
    /\ attempt = 2
    /\ listener[1] = "none"
    /\ listener[2] = "alive"
    /\ Len(sendsB) = 1
    /\ sendsB[1].ok

(* C17: no backoff.fail() precedes the first attempt, and every attempt    *)
(* that ends is followed by exactly one backoff.fail() before the next     *)
(* attempt begins.                                                         *)
C17_OneBackoffPerAttempt ==
    /\ pc = "loop" => fails = attempt
    /\ pc \notin {"loop", "exited"} => fails + 1 = attempt
    /\ pc = "exited" => (fails = attempt \/ fails + 1 = attempt)

C17_Witness ==
    /\ pc = "construct"
    /\ attempt = 2
    /\ fails = 1

(* C18: whatever the configured host, the identity Relay-B->A filters on   *)
(* is the identity platform B gives the bridge on that host: the filter    *)
(* recognises every text the bridge sent into the room.                    *)
C18_FilterKnowsOwnIdentity ==
    \A k \in handled :
        roomEcho => ~not_from_zulip_bot(cfg.matrix, roomEv)

=============================================================================
